---- MODULE Spec2Model ----
(***************************************************************************)
(* A model of src/src/index.ts: the class FreehandSpline (constructor,     *)
(* getStrokeRadius, getOutlineShape, getSplinePoint,                       *)
(* getSplinePointGradient) and the entry point getStroke.                  *)
(*                                                                         *)
(* Numbers.  The program computes in IEEE doubles.  Here a real number r   *)
(* is the integer round(r * U) (fixed point, U units per 1.0), except the  *)
(* option values thinning and smoothing, which are kept in hundredths, and *)
(* size, which is kept in whole units.  The values a double can take that  *)
(* are not numbers are kept apart: a vector carries k = "nan" when one of  *)
(* its components is NaN and k = "undef" when the variable holding it is   *)
(* undefined; a spline parameter carries nan = TRUE when it is NaN.        *)
(* Arrays are 0-based in the program and 1-based here: points[p] of the    *)
(* program is points[p + 1] of the model.                                  *)
(***************************************************************************)
EXTENDS Integers, Sequences, FiniteSets, TLC

U == 16 * 16            \* fixed-point units per 1.0
Half == U \div 2        \* 0.5

-----------------------------------------------------------------------------
(* Bounds of the model.                                                    *)

MaxPts == 3             \* longest input point sequence
MaxSize == 8            \* largest size of the radius specification
MaxIndex == 4           \* largest integer part of a spline parameter
MaxResults == 40        \* resamples after which the results array is
                        \* taken to grow without bound

-----------------------------------------------------------------------------
(* Program constants.                                                      *)

DefaultPressure == Half \* 0.5: the pressure of a point given without one
InitialPressure == Half \* let pp = 0.5
ThinMin == 5            \* 0.05, in hundredths
ThinMax == 95           \* 0.95, in hundredths
StepDivisor == 4        \* trav += size / 4
ShortDivisor == 2       \* traveled + trav > size / 2
FanSteps == 4           \* for (let t = 0; t <= 1; t += 0.25)
LastWindow == 3         \* results.slice(-3)
MinPoints == 2          \* if (points.length < 2) return points

-----------------------------------------------------------------------------
(* Arithmetic.                                                             *)

Abs(a) == IF a < 0 THEN 0 - a ELSE a
Min(a, b) == IF a < b THEN a ELSE b
Max(a, b) == IF a > b THEN a ELSE b

\* a / b rounded to the nearest integer, b > 0.
RDiv(a, b) == (2 * a + b) \div (2 * b)

RECURSIVE SqrtIter(_, _, _)
SqrtIter(n, lo, hi) ==
    IF lo >= hi THEN lo
    ELSE LET mid == (lo + hi + 1) \div 2
         IN  IF mid * mid <= n THEN SqrtIter(n, mid, hi)
             ELSE SqrtIter(n, lo, mid - 1)

\* floor of the square root of n >= 0
ISqrt(n) == SqrtIter(n, 0, Min(n, 46340))

\* Math.hypot(a, b), to the nearest unit
Hypot(a, b) ==
    LET n == a * a + b * b
        r == ISqrt(n)
    IN  IF n - r * r > r THEN r + 1 ELSE r

-----------------------------------------------------------------------------
(* Vectors: ./vec works on the first two components of an array.           *)

V(x, y) == [x |-> x, y |-> y, k |-> "num"]
NaNV == [x |-> 0, y |-> 0, k |-> "nan"]
Undef == [x |-> 0, y |-> 0, k |-> "undef"]

IsNum(A) == A.k = "num"
Defined(A) == A.k # "undef"

add(A, B) == IF IsNum(A) /\ IsNum(B) THEN V(A.x + B.x, A.y + B.y) ELSE NaNV
sub(A, B) == IF IsNum(A) /\ IsNum(B) THEN V(A.x - B.x, A.y - B.y) ELSE NaNV
vec(A, B) == IF IsNum(A) /\ IsNum(B) THEN V(B.x - A.x, B.y - A.y) ELSE NaNV
\* n is a real, in units of U
mul(A, n) == IF IsNum(A) THEN V(RDiv(A.x * n, U), RDiv(A.y * n, U)) ELSE NaNV
per(A) == IF IsNum(A) THEN V(A.y, 0 - A.x) ELSE NaNV
len(A) == Hypot(A.x, A.y)
\* A / |A|; the zero vector gives 0 / 0 = NaN in both components
uni(A) ==
    IF ~IsNum(A) \/ len(A) = 0 THEN NaNV
    ELSE V(RDiv(A.x * U, len(A)), RDiv(A.y * U, len(A)))
med(A, B) == IF IsNum(A) /\ IsNum(B)
             THEN V(RDiv(A.x + B.x, 2), RDiv(A.y + B.y, 2)) ELSE NaNV

\* The dot product is only ever compared with 0: dpr < 0 and dpr > 0 are
\* false when it is NaN.
dpr(A, B) == A.x * B.x + A.y * B.y
DprNegative(A, B) == IsNum(A) /\ IsNum(B) /\ dpr(A, B) < 0
DprPositive(A, B) == IsNum(A) /\ IsNum(B) /\ dpr(A, B) > 0

\* dist(A, B) > d is false when the distance is NaN.
dist(A, B) == Hypot(A.x - B.x, A.y - B.y)
DistGreater(A, B, d) == IsNum(A) /\ IsNum(B) /\ dist(A, B) > d

\* cos and sin of q * PI / 4, in units of U, for q in -4 .. 4
Cos4(q) == CASE Abs(q) = 0 -> U
             [] Abs(q) = 1 -> 181
             [] Abs(q) = 2 -> 0
             [] Abs(q) = 3 -> 0 - 181
             [] OTHER -> 0 - U
Sin4(q) == LET s == CASE Abs(q) = 0 -> 0
                      [] Abs(q) = 1 -> 181
                      [] Abs(q) = 2 -> U
                      [] Abs(q) = 3 -> 181
                      [] OTHER -> 0
           IN  IF q < 0 THEN 0 - s ELSE s

\* rotAround(A, C, r, r) for r = q * PI / 4: A turned by r around C.
rotAround(A, C, q) ==
    IF ~IsNum(A) \/ ~IsNum(C) THEN NaNV
    ELSE LET px == A.x - C.x
             py == A.y - C.y
         IN  V(RDiv(px * Cos4(q) - py * Sin4(q), U) + C.x,
               RDiv(px * Sin4(q) + py * Cos4(q), U) + C.y)

clamp(n, lo, hi) == Max(lo, Min(n, hi))
\* t is a real, in units of U
lerp(a, b, t) == a + RDiv((b - a) * t, U)

-----------------------------------------------------------------------------
(* Control points.  A control point is [x, y, pressure]; an array element  *)
(* that was never assigned is undefined.                                   *)

NoPressure == 0 - 1     \* marks an input point given without a pressure

Pt(x, y, p) == [x |-> x, y |-> y, p |-> p, k |-> "num"]
UndefPt == [x |-> 0, y |-> 0, p |-> 0, k |-> "undef"]

\* ./utils toPointsArray: every input point as [x, y, pressure = 0.5].
toPointsArray(input) ==
    [j \in 1 .. Len(input) |->
        Pt(input[j].x, input[j].y,
           IF input[j].p = NoPressure THEN DefaultPressure ELSE input[j].p)]

lrp(A, B, t) == add(A, mul(vec(A, B), t))

\* let [p0] = pts; this.points = [p0]; for (i = 1; i < len; i++) { p0 =
\* [...vec.lrp(p0, pts[i], 1 - streamline), pts[i][2]]; push(p0) }
\* An empty pts leaves p0 undefined, and this.points = [undefined].
ApplyStreamline(arr, streamline) ==
    LET n == Max(1, Len(arr))
        built[j \in 1 .. n] ==
            IF j = 1 THEN (IF Len(arr) = 0 THEN UndefPt ELSE arr[1])
            ELSE LET q == lrp(built[j - 1], arr[j], U - streamline)
                 IN  Pt(q.x, q.y, arr[j].p)
    IN  [j \in 1 .. n |-> built[j]]

\* One pass of the pressure loop from point j on (1-based), pp the previous
\* pressure.  The loop runs for i < points.length - 1: the last point is
\* never assigned.
RECURSIVE SimulatePressures(_, _, _, _)
SimulatePressures(P, j, pp, size) ==
    IF j > Len(P) - 1 THEN P
    ELSE LET length == dist(P[j], P[j + 1])
             ratio == RDiv(length, size)
             rp == Min(U - ratio, U)
             sp == Min(ratio, U)
             np == Min(U, pp + RDiv((rp - pp) * sp, 2 * U))
         IN  SimulatePressures([P EXCEPT ![j].p = np], j + 1, np, size)

Lengths(P) == [j \in 1 .. Len(P) - 1 |-> dist(P[j], P[j + 1])]

\* new FreehandSpline(input, options): the fields points and lengths.
Constructor(input, o) ==
    LET streamlined == ApplyStreamline(toPointsArray(input), o.streamline)
    IN  [points |-> IF o.simulatePressure
                    THEN SimulatePressures(streamlined, 1, InitialPressure, o.size)
                    ELSE streamlined,
         lengths |-> Lengths(streamlined)]

-----------------------------------------------------------------------------
(* getStrokeRadius, with the identity easing.  thinning is in hundredths,  *)
(* pressure and the result in units of U.                                  *)

\* getStrokeRadius with the diameter doubled where it is to be halved.
getStrokeRadiusDoubled(size, thinning, pressure) ==
    IF thinning = 0 THEN RDiv(size * U, 2)
    ELSE LET pr == clamp(pressure, 0, U)
             full == size * U
         IN  IF thinning < 0
             THEN 2 * lerp(full,
                           full + RDiv(full * clamp(thinning, 0 - ThinMax, 0 - ThinMin), 100),
                           pr)
             ELSE 2 * lerp(full - RDiv(full * clamp(thinning, ThinMin, ThinMax), 100),
                           full, pr)

getStrokeRadius(size, thinning, pressure) ==
    IF thinning = 0 THEN RDiv(size * U, 2)
    ELSE LET pr == clamp(pressure, 0, U)
             full == size * U
         IN  IF thinning < 0
             THEN RDiv(lerp(full,
                            full + RDiv(full * clamp(thinning, 0 - ThinMax, 0 - ThinMin), 100),
                            pr), 2)
             ELSE RDiv(lerp(full - RDiv(full * clamp(thinning, ThinMin, ThinMax), 100),
                            full, pr), 2)

-----------------------------------------------------------------------------
(* The spline.  A parameter index is kept as its integer part d =           *)
(* Math.trunc(index) and its fraction t = index - d in units of U; it may  *)
(* be NaN.                                                                 *)

Index(d, t) == [d |-> d, t |-> t, nan |-> FALSE]
NaNIndex == [d |-> 0, t |-> 0, nan |-> TRUE]

\* i + trav / length.  0 / 0 is NaN; trav = length gives i + 1.
SegmentIndex(i, trav, length) ==
    IF length = 0 THEN NaNIndex
    ELSE LET r == (trav * U) \div length
         IN  IF r >= U THEN Index(i + 1, 0) ELSE Index(i, r)

\* The control-point indices <<p0, p1, p2, p3>> (0-based) of getSplinePoint
\* and getSplinePointGradient for l points and integer part d.
ControlIndices(l, looped, d) ==
    IF looped
    THEN LET p1 == d
             p2 == (p1 + 1) % l
             p3 == (p2 + 1) % l
             p0 == IF p1 >= 1 THEN p1 - 1 ELSE l - 1
         IN  <<p0, p1, p2, p3>>
    ELSE LET p1 == Min(d + 1, l - 1)
             p2 == Min(p1 + 1, l - 1)
             p3 == Min(p2 + 1, l - 1)
             p0 == p1 - 1
         IN  <<p0, p1, p2, p3>>

\* points[p] is undefined: p is no index of the array (NaN included), or
\* the element is undefined.  Reading points[p][0] then throws a TypeError.
UndefinedAt(P, p) == p < 0 \/ p >= Len(P) \/ P[p + 1].k = "undef"

SplineThrows(P, looped, index) ==
    \/ index.nan
    \/ \E j \in 1 .. 4 : UndefinedAt(P, ControlIndices(Len(P), looped, index.d)[j])

\* 0.5 * (points[p0] * q1 + points[p1] * q2 + points[p2] * q3 + points[p3] * q4)
Blend(P, ci, q) ==
    LET c(f) == RDiv(f[ci[1] + 1] * q[1] + f[ci[2] + 1] * q[2]
                     + f[ci[3] + 1] * q[3] + f[ci[4] + 1] * q[4], 2 * U)
    IN  Pt(c([j \in 1 .. Len(P) |-> P[j].x]),
           c([j \in 1 .. Len(P) |-> P[j].y]),
           c([j \in 1 .. Len(P) |-> P[j].p]))

PointBasis(t) ==
    LET tt == RDiv(t * t, U)
        ttt == RDiv(tt * t, U)
    IN  <<(0 - ttt) + 2 * tt - t,
          3 * ttt - 5 * tt + 2 * U,
          (0 - 3 * ttt) + 4 * tt + t,
          ttt - tt>>

GradientBasis(t) ==
    LET tt == RDiv(t * t, U)
    IN  <<(0 - 3 * tt) + 4 * t - U,
          9 * tt - 10 * t,
          (0 - 9 * tt) + 8 * t + U,
          3 * tt - 2 * t>>

getSplinePoint(P, looped, index) ==
    Blend(P, ControlIndices(Len(P), looped, index.d), PointBasis(index.t))

getSplinePointGradient(P, looped, index) ==
    Blend(P, ControlIndices(Len(P), looped, index.d), GradientBasis(index.t))

-----------------------------------------------------------------------------
(* Inputs.                                                                 *)

\* Positions of input points, in whole units.
Positions == {<<0, 0>>, <<8, 0>>, <<16, 0>>, <<8, 6>>}

\* Pressures of input points: none given, or 0.25.
InputPressures == {NoPressure, U \div 4}

InputOf(xy, p) == [j \in 1 .. Len(xy) |-> [x |-> xy[j][1] * U, y |-> xy[j][2] * U, p |-> p]]

PositionSeqs == UNION {[1 .. n -> Positions] : n \in 0 .. MaxPts}

\* Options: size in whole units, thinning and smoothing in hundredths,
\* streamline in units of U.
Option(size, thinning, smoothing, streamline, simulatePressure, looped) ==
    [size |-> size, thinning |-> thinning, smoothing |-> smoothing,
     streamline |-> streamline, simulatePressure |-> simulatePressure,
     looped |-> looped]

\* getStroke's option settings: the defaults (size 8, thinning 0.5,
\* smoothing 0.5, streamline 0.5, simulated pressure) and variations of
\* them.  With size 0 the simulated pressure is not a number, and the
\* model keeps to recorded pressure there.
Configs ==
    {Option(8, 50, 50, Half, TRUE, FALSE),
     Option(8, 50, 50, 0, TRUE, FALSE),
     Option(8, 0, 50, 0, FALSE, FALSE),
     Option(8, 0 - 50, 50, U, FALSE, FALSE),
     Option(0, 50, 50, 0, FALSE, FALSE)}

-----------------------------------------------------------------------------
(* State.                                                                  *)

VARIABLES
    input,        \* the points given to getStroke
    opt,          \* the options
    pc,           \* where the program is
    points,       \* this.points
    lengths,      \* this.lengths
    results,      \* getOutlineShape: the resamples {point, gradient}
    i,            \* getOutlineShape: the loop index (0-based)
    trav,         \* getOutlineShape: distance traveled in the segment
    error,        \* getOutlineShape: left over from the previous segment
    traveled,     \* getOutlineShape: length of the segments passed
    short,        \* getOutlineShape: size / 2 not yet traveled
    leftSpline,   \* getOutlineShape: the left side
    rightSpline,  \* getOutlineShape: the right side
    leftVia,      \* for each vertex of leftSpline, the path that pushed it
    rightVia,     \* for each vertex of rightSpline, the path that pushed it
    w,            \* getOutlineShape: l0, r0, tl, tr, tlu, plu, tru, pru
    outline,      \* the value returned
    arg,          \* the argument of a method called on its own
    ret           \* what that call computed

vars == <<input, opt, pc, points, lengths, results, i, trav, error, traveled,
          short, leftSpline, rightSpline, leftVia, rightVia, w, outline, arg, ret>>

ctorVars == <<points, lengths>>
resampleVars == <<results, i, trav, error, traveled, short>>
walkVars == <<leftSpline, rightSpline, leftVia, rightVia, w>>
callVars == <<arg, ret>>

NoWalk == [l0 |-> Undef, r0 |-> Undef, tl |-> Undef, tr |-> Undef,
           tlu |-> Undef, plu |-> Undef, tru |-> Undef, pru |-> Undef]

Blank ==
    /\ points = <<>> /\ lengths = <<>>
    /\ results = <<>> /\ i = 0 /\ trav = 0 /\ error = 0 /\ traveled = 0
    /\ short = TRUE
    /\ leftSpline = <<>> /\ rightSpline = <<>>
    /\ leftVia = <<>> /\ rightVia = <<>>
    /\ w = NoWalk
    /\ outline = <<>>

Init ==
    /\ \E xy \in PositionSeqs, p \in InputPressures : input = InputOf(xy, p)
    /\ opt \in Configs
    /\ pc = "new"
    /\ Blank
    /\ arg = 0 /\ ret = 0

-----------------------------------------------------------------------------
(* getStroke: new FreehandSpline(points, options), then getOutlineShape(). *)

Construct ==
    /\ pc = "new"
    /\ LET c == Constructor(input, opt)
       IN  points' = c.points /\ lengths' = c.lengths
    /\ pc' = "constructed"
    /\ UNCHANGED <<input, opt, resampleVars, walkVars, outline, callVars>>

\* if (points.length < 2) return points
GetOutlineShape ==
    /\ pc = "constructed"
    /\ IF Len(points) < MinPoints
       THEN pc' = "done" /\ outline' = points
       ELSE pc' = "resample" /\ outline' = outline
    /\ UNCHANGED <<input, opt, ctorVars, resampleVars, walkVars, callVars>>

Step == RDiv(opt.size * U, StepDivisor)

\* One turn of while (trav <= length): a resample is pushed.
Resample ==
    /\ pc = "resample"
    /\ trav <= lengths[i + 1]
    /\ LET index == SegmentIndex(i, trav, lengths[i + 1])
       IN  IF SplineThrows(points, opt.looped, index)
           THEN pc' = "threw" /\ UNCHANGED <<results, trav, short>>
           ELSE IF Len(results) >= MaxResults
           THEN pc' = "exhausted" /\ UNCHANGED <<results, trav, short>>
           ELSE LET point == getSplinePoint(points, opt.looped, index)
                    gradient == uni(getSplinePointGradient(points, opt.looped, index))
                    turn == short /\ traveled + trav > RDiv(opt.size * U, ShortDivisor)
                    kept == IF turn
                            THEN [j \in 1 .. Len(results) |->
                                     [results[j] EXCEPT !.gradient = gradient]]
                            ELSE results
                IN  /\ results' = Append(kept, [point |-> point, gradient |-> gradient])
                    /\ short' = (short /\ ~turn)
                    /\ trav' = trav + Step
                    /\ pc' = pc
    /\ UNCHANGED <<input, opt, ctorVars, i, error, traveled, walkVars, outline, callVars>>

\* The while loop is left: error = trav - length, traveled += length, i++.
NextSegment ==
    /\ pc = "resample"
    /\ trav > lengths[i + 1]
    /\ error' = trav - lengths[i + 1]
    /\ traveled' = traveled + lengths[i + 1]
    /\ i' = i + 1
    /\ trav' = error'
    /\ pc' = IF i + 1 < Len(points) - 1 THEN "resample" ELSE "last"
    /\ UNCHANGED <<input, opt, ctorVars, results, short, walkVars, outline, callVars>>

RECURSIVE Reduce(_, _)
\* results.slice(-3).reduce((acc, cur) => acc ? vec.med(acc, cur.gradient)
\* : cur.gradient, acc): an array is always truthy.
Reduce(acc, rest) ==
    IF rest = <<>> THEN acc
    ELSE Reduce(med(acc, Head(rest).gradient), Tail(rest))

LastGradient ==
    LET n == Len(results)
        from == Max(1, n - LastWindow + 1)
        \* points.length - 1.1
        index == Index(Len(points) - 2, RDiv(9 * U, 10))
    IN  Reduce(uni(getSplinePointGradient(points, opt.looped, index)),
               SubSeq(results, from, n))

\* The last resample, at points.length - 1.
LastSample ==
    /\ pc = "last"
    /\ results' = Append(results,
          [point |-> getSplinePoint(points, opt.looped, Index(Len(points) - 1, 0)),
           gradient |-> LastGradient])
    /\ i' = 0
    /\ pc' = "walk"
    /\ UNCHANGED <<input, opt, ctorVars, trav, error, traveled, short, walkVars,
                   outline, callVars>>

-----------------------------------------------------------------------------
(* getOutlineShape: the walk over the resamples, i from 0 to                *)
(* results.length - 2.                                                     *)

Radius(point) == getStrokeRadius(opt.size, opt.thinning, point.p)

\* size * smoothing
MinDist == RDiv(opt.size * U * opt.smoothing, 100)

\* i > 0 && dpr < 0
AtCorner ==
    i > 0 /\ DprNegative(results[i + 1].gradient, results[i + 2].gradient)

\* The vertices pushed by for (let t = 0; t <= 1; t += 0.25): A turned
\* around C by PI * t, to the left (dir = 1) or to the right (dir = -1).
Fan(A, C, dir) == [q \in 1 .. FanSteps + 1 |-> rotAround(A, C, dir * (q - 1))]

\* The anchor the corner path sets after its fan: l0 = tl.  r0 is left as
\* it was.
CornerAnchors(old, tl, tr) == [old EXCEPT !.l0 = tl, !.tl = tl, !.tr = tr]

\* Sharp corner: a fan on both sides.
WalkCorner ==
    /\ pc = "walk"
    /\ i < Len(results) - 1
    /\ AtCorner
    /\ LET point == results[i + 1].point
           pg == results[i].gradient
           v == mul(per(pg), Radius(point))
           l1 == add(point, v)
           r1 == sub(point, v)
           plu1 == IF Defined(w.l0) THEN uni(vec(w.l0, l1)) ELSE w.plu
           \* if (r0) { plu = ... }: the right side assigns plu as well
           plu2 == IF Defined(w.r0) THEN uni(vec(w.r0, r1)) ELSE plu1
           fanL == Fan(l1, point, 1)
           fanR == Fan(r1, point, 0 - 1)
       IN  /\ leftSpline' = leftSpline \o fanL
           /\ rightSpline' = rightSpline \o fanR
           /\ leftVia' = leftVia \o [q \in 1 .. Len(fanL) |-> "corner"]
           /\ rightVia' = rightVia \o [q \in 1 .. Len(fanR) |-> "corner"]
           /\ w' = CornerAnchors([w EXCEPT !.plu = plu2],
                                 fanL[Len(fanL)], fanR[Len(fanR)])
    /\ i' = i + 1
    /\ UNCHANGED <<input, opt, pc, ctorVars, results, trav, error, traveled, short,
                   outline, callVars>>

\* One side of the regular path: anchor a0, previous direction pu, new
\* vertex t.  Gives the new direction tu, the previous direction as left
\* before the push, and whether the vertex is added.
\* (i === results.length - 1 is never true inside the loop.)
Side(a0, pu, tu0, t, gradient) ==
    IF ~Defined(a0)
    THEN [add |-> TRUE, tu |-> tu0, pu |-> pu]
    ELSE LET tu == uni(vec(a0, t))
         IN  IF ~Defined(pu)
             THEN [add |-> FALSE, tu |-> tu, pu |-> tu]
             ELSE [add |-> DprPositive(tu, gradient) /\ DistGreater(a0, t, MinDist),
                   tu |-> tu, pu |-> pu]

\* Regular point: each side gets the vertex or not.
WalkRegular ==
    /\ pc = "walk"
    /\ i < Len(results) - 1
    /\ ~AtCorner
    /\ LET point == results[i + 1].point
           gradient == results[i + 1].gradient
           r == mul(per(gradient), Radius(point))
           tl == add(point, r)
           tr == sub(point, r)
           L == Side(w.l0, w.plu, w.tlu, tl, gradient)
           R == Side(w.r0, w.pru, w.tru, tr, gradient)
       IN  /\ leftSpline' = IF L.add THEN Append(leftSpline, tl) ELSE leftSpline
           /\ leftVia' = IF L.add THEN Append(leftVia, "regular") ELSE leftVia
           /\ rightSpline' = IF R.add THEN Append(rightSpline, tr) ELSE rightSpline
           /\ rightVia' = IF R.add THEN Append(rightVia, "regular") ELSE rightVia
           /\ w' = [tl |-> tl, tr |-> tr,
                    tlu |-> L.tu, tru |-> R.tu,
                    l0 |-> IF L.add THEN tl ELSE w.l0,
                    plu |-> IF L.add THEN L.tu ELSE L.pu,
                    r0 |-> IF R.add THEN tr ELSE w.r0,
                    pru |-> IF R.add THEN R.tu ELSE R.pu]
    /\ i' = i + 1
    /\ UNCHANGED <<input, opt, pc, ctorVars, results, trav, error, traveled, short,
                   outline, callVars>>

Reverse(q) == [j \in 1 .. Len(q) |-> q[Len(q) + 1 - j]]

\* The assembly with rightSpline.reverse() left out.
AssembledUnreversed(startCap, left, right) == startCap \o left \o right

\* [...startCap, ...leftSpline, ...endCap, ...rightSpline], rightSpline
\* reversed in place and endCap empty.
Assembled(startCap, left, right) == startCap \o left \o Reverse(right)

\* The start cap, the reversal of the right side, and the return.
\* rightSpline[0] of an empty array is undefined, and rotAround reads its
\* components.
Assemble ==
    /\ pc = "walk"
    /\ i >= Len(results) - 1
    /\ IF rightSpline = <<>>
       THEN pc' = "threw" /\ UNCHANGED <<outline, rightSpline, rightVia, w>>
       ELSE LET r0 == rightSpline[1]
                tl == results[1].point
                startCap == Fan(r0, tl, 1)
            IN  /\ outline' = Assembled(startCap, leftSpline, rightSpline)
                /\ rightSpline' = Reverse(rightSpline)
                /\ rightVia' = Reverse(rightVia)
                /\ w' = [w EXCEPT !.r0 = r0, !.tl = V(tl.x, tl.y)]
                /\ pc' = "done"
    /\ UNCHANGED <<input, opt, ctorVars, resampleVars, leftSpline, leftVia, callVars>>

Next ==
    \/ Construct
    \/ GetOutlineShape
    \/ Resample
    \/ NextSegment
    \/ LastSample
    \/ WalkCorner
    \/ WalkRegular
    \/ Assemble

Spec == Init /\ [][Next]_vars

-----------------------------------------------------------------------------
(* Methods called on their own.                                            *)

\* Spline parameters index >= 0: integer part 0 .. MaxIndex, fraction 0 or 0.5.
Indices == {Index(d, t) : d \in 0 .. MaxIndex, t \in {0, Half}}

SplineCall(method, index, value) ==
    [method |-> method, index |-> index,
     ctl |-> ControlIndices(Len(points), opt.looped, index.d),
     value |-> value]

\* spline.getSplinePoint(index)
GetSplinePointCall ==
    /\ pc = "constructed"
    /\ \E index \in Indices :
          /\ arg' = index
          /\ IF SplineThrows(points, opt.looped, index)
             THEN pc' = "call threw"
                  /\ ret' = SplineCall("getSplinePoint", index, UndefPt)
             ELSE pc' = "call returned"
                  /\ ret' = SplineCall("getSplinePoint", index,
                                       getSplinePoint(points, opt.looped, index))
    /\ UNCHANGED <<input, opt, ctorVars, resampleVars, walkVars, outline>>

\* spline.getSplinePointGradient(index)
GetSplinePointGradientCall ==
    /\ pc = "constructed"
    /\ \E index \in Indices :
          /\ arg' = index
          /\ IF SplineThrows(points, opt.looped, index)
             THEN pc' = "call threw"
                  /\ ret' = SplineCall("getSplinePointGradient", index, UndefPt)
             ELSE pc' = "call returned"
                  /\ ret' = SplineCall("getSplinePointGradient", index,
                                       getSplinePointGradient(points, opt.looped, index))
    /\ UNCHANGED <<input, opt, ctorVars, resampleVars, walkVars, outline>>

\* while (distance > lengths[i]) { distance -= lengths[i]; i++ }
\* return i + distance / lengths[i]
\* Past the end lengths[i] is undefined: the comparison is false and the
\* quotient is NaN.
RECURSIVE getNormalizedOffsetAt(_, _, _)
getNormalizedOffsetAt(L, distance, j) ==
    IF j >= Len(L) THEN NaNIndex
    ELSE IF distance > L[j + 1] THEN getNormalizedOffsetAt(L, distance - L[j + 1], j + 1)
    ELSE SegmentIndex(j, distance, L[j + 1])

\* spline.getNormalizedOffsetAt(distance), distance in whole units
GetNormalizedOffsetAtCall ==
    /\ pc = "constructed"
    /\ \E distance \in 0 .. MaxIndex :
          /\ arg' = distance
          /\ ret' = [method |-> "getNormalizedOffsetAt",
                     index |-> getNormalizedOffsetAt(lengths, distance * U, 0)]
    /\ pc' = "call returned"
    /\ UNCHANGED <<input, opt, ctorVars, resampleVars, walkVars, outline>>

InitIndex ==
    /\ \E xy \in PositionSeqs : input = InputOf(xy, NoPressure)
    /\ \E looped \in BOOLEAN : opt = Option(8, 50, 50, 0, FALSE, looped)
    /\ pc = "new"
    /\ Blank
    /\ arg = 0 /\ ret = 0

NextIndex ==
    \/ Construct
    \/ GetSplinePointCall
    \/ GetSplinePointGradientCall
    \/ GetNormalizedOffsetAtCall

SpecIndex == InitIndex /\ [][NextIndex]_vars

\* spline.getStrokeRadius(pressure), on a spline of the given size and thinning
Thinnings == {t \in (0 - 100) .. 100 : t % 5 = 0}
Pressures == {p \in 0 .. U : p % 16 = 0}

GetStrokeRadiusCall ==
    /\ pc = "radius"
    /\ ret' = getStrokeRadius(arg.size, arg.thinning, arg.pressure)
    /\ pc' = "call returned"
    /\ UNCHANGED <<input, opt, ctorVars, resampleVars, walkVars, outline, arg>>

InitRadius ==
    /\ input = <<>>
    /\ opt = Option(8, 50, 50, Half, TRUE, FALSE)
    /\ pc = "radius"
    /\ Blank
    /\ arg \in [size : 1 .. MaxSize, thinning : Thinnings, pressure : Pressures]
    /\ ret = 0

NextRadius == GetStrokeRadiusCall

SpecRadius == InitRadius /\ [][NextRadius]_vars

\* Two splines constructed from inputs of the same positions and different
\* recorded pressures, with simulated pressure: input and points are the
\* one, arg and ret the other.
ConstructPair ==
    /\ pc = "new"
    /\ LET c == Constructor(input, opt)
       IN  points' = c.points /\ lengths' = c.lengths
    /\ ret' = Constructor(arg, opt).points
    /\ pc' = "constructed"
    /\ UNCHANGED <<input, opt, resampleVars, walkVars, outline, arg>>

InitPressure ==
    /\ \E xy \in PositionSeqs, p, q \in InputPressures \cup {3 * (U \div 4)} :
          /\ p # q
          /\ input = InputOf(xy, p)
          /\ arg = InputOf(xy, q)
    /\ \E streamline \in {0, Half} : opt = Option(8, 50, 50, streamline, TRUE, FALSE)
    /\ pc = "new"
    /\ Blank
    /\ ret = 0

NextPressure == ConstructPair

SpecPressure == InitPressure /\ [][NextPressure]_vars

-----------------------------------------------------------------------------
(* Properties.                                                             *)

\* Two vertices coincide: the same kind of value and, for numbers, the
\* same coordinates to within one unit of the fixed point.
Coincide(a, b) ==
    /\ a.k = b.k
    /\ Abs(a.x - b.x) <= 1
    /\ Abs(a.y - b.y) <= 1

NeverThrows == pc # "threw"

\* C3.  Empty input yields an empty outline: when getStroke returns for an
\* input of length 0, the streamlined point list has length 0 and the
\* outline returned is the empty sequence.
EmptyInputEmptyOutline ==
    (pc = "done" /\ input = <<>>) => (Len(points) = 0 /\ outline = <<>>)

\* C4.  Short-stroke threshold: for two points at distance d, streamline 0,
\* the outline returned is the 5-vertex short-stroke shape if and only if
\* d < 2 * size.  (An outline of five vertices is taken for the shape: the
\* builder's outline has the five of the start cap and more.)
ShortStrokeThreshold ==
    (pc = "done" /\ Len(input) = 2 /\ opt.streamline = 0) =>
        (Len(outline) = 5 <=> dist(input[1], input[2]) < 2 * opt.size * U)

\* C5.  Simulated pressure ignores recorded pressure: two inputs of the
\* same positions and different pressures give the same pressure on every
\* point, the first through the last.
SimulatedPressureIgnoresInput ==
    (pc = "constructed" /\ opt.simulatePressure) =>
        \A j \in 1 .. Len(points) : points[j].p = ret[j].p

\* C6.  Radius bounds: for size > 0, pressure in [0, 1] and thinning in
\* [-1, 1], getStrokeRadius returns r with 0 <= r <= size.
RadiusWithinBounds ==
    pc = "call returned" => (0 <= ret /\ ret <= arg.size * U)

\* C6 witness: the radius of full pressure under thinning -1, which the
\* clamp to -0.95 keeps above 0 and below size / 2.
RadiusWitness ==
    /\ pc = "call returned"
    /\ arg.thinning = 0 - 100
    /\ arg.pressure = U
    /\ ret > 0
    /\ 2 * ret < arg.size * U

\* The input is a straight stroke of three points or more, from left to
\* right on the line y = 0.
Straight ==
    /\ Len(input) >= 3
    /\ \A j \in 1 .. Len(input) : input[j].y = 0
    /\ \A j \in 1 .. Len(input) - 1 : input[j].x < input[j + 1].x

\* The vertices of a side that the regular path pushed lie at height h.
SideAt(side, via, h) ==
    \A j \in 1 .. Len(side) : via[j] = "regular" => side[j].y = h

\* C7.  Straight-stroke outline covers the whole stroke: with thinning 0 and
\* streamline 0, every vertex lies within size / 2 of the line y = 0, the
\* two sides lie on y = size / 2 and y = -size / 2, and the outline has a
\* vertex at or before the first input point and a vertex at or after the
\* last input point.
StraightStrokeCovered ==
    (pc = "done" /\ Straight /\ opt.thinning = 0 /\ opt.streamline = 0) =>
        /\ \A j \in 1 .. Len(outline) :
              IsNum(outline[j]) /\ 2 * Abs(outline[j].y) <= opt.size * U
        /\ \E h \in {Radius(points[1]), 0 - Radius(points[1])} :
              /\ SideAt(leftSpline, leftVia, h)
              /\ SideAt(rightSpline, rightVia, 0 - h)
        /\ \E j \in 1 .. Len(outline) : outline[j].x <= input[1].x
        /\ \E j \in 1 .. Len(outline) : outline[j].x >= input[Len(input)].x

\* C8.  Spline control-point indices are always in bounds: for l >= 1
\* points, looped or not, and every index >= 0 given to getSplinePoint or
\* getSplinePointGradient, p0, p1, p2 and p3 lie in 0 .. l - 1.
ControlIndicesInBounds ==
    (pc \in {"call returned", "call threw"}
        /\ ret.method \in {"getSplinePoint", "getSplinePointGradient"}) =>
        \A j \in 1 .. 4 : ret.ctl[j] \in 0 .. Len(points) - 1

\* C9.  Termination: every turn of the resampling loop while (trav <=
\* length) advances trav, so the loop is left for every segment and the
\* number of resamples is finite.
ResampleLoopAdvances ==
    [][(pc = "resample" /\ pc' = "resample" /\ i' = i) => trav' > trav]_vars

\* One side is gated by minDist: every vertex the regular path pushed is the
\* first of its side or lies farther than minDist from the vertex before it.
Gated(side, via) ==
    \A j \in 2 .. Len(side) :
        via[j] = "regular" => DistGreater(side[j - 1], side[j], MinDist)

\* C10.  Side simplification is gated by minDist on both sides alike,
\* during the walk.
SidesGatedByMinDist ==
    pc = "walk" => (Gated(leftSpline, leftVia) /\ Gated(rightSpline, rightVia))

====
